---- MODULE Spec2Model ----
(***************************************************************************)
(* A model of velero-watchdog.py: one run of main() over a listing of      *)
(* Velero backup objects.  The classification                              *)
(* (find_failed_backup_schedules) is a pure operator; the two loops that   *)
(* talk to the outside world (velero CLI, Kubernetes API) advance one      *)
(* iteration per step, the outcome of each external call being chosen      *)
(* nondeterministically.  An uncaught Python exception ends the run: the   *)
(* variable `exception` records it and no action is enabled afterwards.    *)
(***************************************************************************)
EXTENDS Integers, Sequences, FiniteSets

\* ------------------------------------------------------------------ bounds

\* longest listing returned by get_velero_backups
MaxRecords == 2
\* largest --time-window (hours)
MaxWindow == 1
\* start timestamps range over hours 0..MaxHour, at minutes 0 and 30
MaxHour == 1

\* timedelta(hours=1) in minutes, the unit ages are compared in
MinutesPerHour == 60

\* ------------------------------------------------------------- input data

Minutes == {0, 30}

\* status.startTimestamp: absent (status.get returns None), a string that
\* datetime.fromisoformat rejects, or an ISO string of a UTC instant (the
\* API server writes UTC; .replace(tzinfo=utc) reads the wall time as UTC),
\* here an hour and a minute of the day of the run
NoTimestamp == [kind |-> "none", h |-> 0, m |-> 0]

MalformedTimestamp == [kind |-> "malformed", h |-> 0, m |-> 0]

IsoTimestamps == [kind : {"iso"}, h : 0..MaxHour, m : Minutes]

StartTimestamps == {NoTimestamp, MalformedTimestamp} \cup IsoTimestamps

Phases == {"Completed", "PartiallyFailed", "Failed"}

OwnerRef(k, n) == [kind |-> k, name |-> n]

\* metadata.ownerReferences: the shapes of owner-reference lists listed
OwnerRefLists ==
    { <<>>,
      <<OwnerRef("Schedule", "daily")>>,
      <<OwnerRef("Node", "worker")>>,
      <<OwnerRef("Schedule", "daily"), OwnerRef("Schedule", "weekly")>>,
      <<OwnerRef("Schedule", "weekly")>>,
      <<OwnerRef("Node", "worker"), OwnerRef("Schedule", "weekly")>> }

\* metadata.labels: without or with a `schedule` label (value "" = no label)
NoLabel == ""

ScheduleLabels == {NoLabel, "monthly"}

\* metadata.name of the i-th object of a listing (names are unique within
\* a namespace); listings of up to four objects can be named
BackupNames == <<"b1", "b2", "b3", "b4">>

BackupName(i) == BackupNames[i]

\* datetime.now(timezone.utc), read once per classification
Now == [kind |-> "iso", h |-> MaxHour, m |-> 30]

\* The objects a listing is drawn from: every phase and timestamp under a
\* single Schedule owner, and every owner-reference list and label on a
\* failed backup started now.
RecordShapes ==
    [phase : Phases, startTimestamp : StartTimestamps,
     ownerReferences : {<<OwnerRef("Schedule", "daily")>>},
     labels : {NoLabel}]
    \cup
    [phase : {"Failed"},
     startTimestamp : {Now},
     ownerReferences : OwnerRefLists, labels : ScheduleLabels]

Backup(i, shape) ==
    [name |-> BackupName(i), phase |-> shape.phase,
     startTimestamp |-> shape.startTimestamp,
     ownerReferences |-> shape.ownerReferences, labels |-> shape.labels]

\* k8s.get_velero_backups(): the listing made of the given shapes, in order
Listing(shapes) == [i \in 1..Len(shapes) |-> Backup(i, shapes[i])]

VARIABLES
    backup_specs,         \* main: the listing fetched from the API
    window_hours,         \* args.time_window
    dry_run,              \* args.dry_run
    dont_delete_backups,  \* args.dont_delete_backups
    pc,                   \* where main is: classify, trigger, delete, done
    exception,            \* the uncaught exception that ended the run, or "None"
    schedules,            \* main: the dict find_failed_backup_schedules returned
    schedules_list,       \* trigger loop: schedules not yet iterated
    new_backups,          \* trigger loop: ids parsed from the CLI output
    backups,              \* delete loop: backup names not yet iterated
    commands              \* every external call issued, in order

vars == <<backup_specs, window_hours, dry_run, dont_delete_backups, pc,
          exception, schedules, schedules_list, new_backups, backups,
          commands>>

\* ------------------------------------------------------ classification

PHASES == {"PartiallyFailed", "Failed"}

\* datetime.fromisoformat(s).replace(tzinfo=timezone.utc), as minutes
fromisoformat(ts) == ts.h * MinutesPerHour + ts.m

\* timedelta(hours=window_hours), as minutes
timedelta(hours) == hours * MinutesPerHour

\* in_window without its phase test
in_window_any_phase(backup, window) ==
    fromisoformat(Now) - fromisoformat(backup.startTimestamp)
        <= timedelta(window)

\* line 111: phase in PHASES and now - start <= timedelta(hours=window)
in_window(backup, window) ==
    /\ backup.phase \in PHASES
    /\ fromisoformat(Now) - fromisoformat(backup.startTimestamp)
           <= timedelta(window)

\* A dict is the sequence of its items in insertion order.
Keys(d) == [i \in 1..Len(d) |-> d[i].key]

HasKey(d, k) == \E i \in 1..Len(d) : d[i].key = k

\* d.setdefault(k, []).append(v)
setdefault_append(d, k, v) ==
    IF HasKey(d, k)
    THEN [i \in 1..Len(d) |->
             IF d[i].key = k
             THEN [key |-> k, val |-> Append(d[i].val, v)]
             ELSE d[i]]
    ELSE Append(d, [key |-> k, val |-> <<v>>])

\* lines 115-123: the loop over one backup's owner references, from the j-th
RECURSIVE owner_loop(_, _, _)
owner_loop(d, backup, j) ==
    IF j > Len(backup.ownerReferences) THEN d
    ELSE LET owner_ref == backup.ownerReferences[j]
         IN  IF owner_ref.kind = "Schedule"
             THEN owner_loop(setdefault_append(d, owner_ref.name, backup.name),
                             backup, j + 1)
             ELSE owner_loop(d, backup, j + 1)

\* lines 99-125: the loop over the listing, from the i-th object; the result
\* is the returned dict, or the ValueError of fromisoformat
RECURSIVE backup_loop(_, _, _, _)
backup_loop(recent_failures, specs, window, i) ==
    IF i > Len(specs) THEN [raised |-> FALSE, value |-> recent_failures]
    ELSE LET backup == specs[i]
         IN  IF backup.startTimestamp.kind = "none"
             THEN backup_loop(recent_failures, specs, window, i + 1)
             ELSE IF backup.startTimestamp.kind = "malformed"
             THEN [raised |-> TRUE, value |-> <<>>]
             ELSE IF in_window(backup, window)
             THEN backup_loop(owner_loop(recent_failures, backup, 1),
                              specs, window, i + 1)
             ELSE backup_loop(recent_failures, specs, window, i + 1)

find_failed_backup_schedules(backups_specs, window) ==
    backup_loop(<<>>, backups_specs, window, 1)

\* chain.from_iterable(schedules.values()), as a list
RECURSIVE chain_values(_)
chain_values(d) ==
    IF d = <<>> THEN <<>> ELSE Head(d).val \o chain_values(Tail(d))

\* ------------------------------------------------------- external calls

\* What execute() returns for a velero CLI call: the lines of its stdout,
\* each carrying `Backup request "<id>"` or not.  A command that fails
\* prints no such line; execute() itself does not raise on a non-zero exit
\* status (check=False).
RequestLine(id) == [request |-> TRUE, id |-> id]

ErrorLine == [request |-> FALSE, id |-> ""]

StdOuts(schedule) ==
    { <<>>, <<ErrorLine>>, <<RequestLine(<<schedule, "new">>)>> }

\* re.findall(r"Backup request \"(.*?)\"", output)
RECURSIVE findall(_)
findall(output) ==
    IF output = <<>> THEN <<>>
    ELSE IF Head(output).request
         THEN <<Head(output).id>> \o findall(Tail(output))
         ELSE findall(Tail(output))

Command(c, arg) == [cmd |-> c, arg |-> arg]

\* --------------------------------------------------------------- the run

Init ==
    /\ \E n \in 0..MaxRecords :
         \E shapes \in [1..n -> RecordShapes] :
           backup_specs = Listing(shapes)
    /\ window_hours \in 0..MaxWindow
    /\ dry_run \in BOOLEAN
    /\ dont_delete_backups \in BOOLEAN
    /\ pc = "classify"
    /\ exception = "None"
    /\ schedules = <<>>
    /\ schedules_list = <<>>
    /\ new_backups = <<>>
    /\ backups = <<>>
    /\ commands = <<>>

Running == exception = "None"

\* main, lines 220-232: classify, then the two early returns
main_classify ==
    /\ pc = "classify" /\ Running
    /\ LET r == find_failed_backup_schedules(backup_specs, window_hours)
       IN  IF r.raised
           THEN /\ exception' = "ValueError"
                /\ UNCHANGED <<pc, schedules, schedules_list>>
           ELSE /\ schedules' = r.value
                /\ exception' = exception
                /\ IF r.value = <<>> \/ dry_run
                   THEN pc' = "done" /\ schedules_list' = schedules_list
                   ELSE pc' = "trigger" /\ schedules_list' = Keys(r.value)
    /\ UNCHANGED <<backup_specs, window_hours, dry_run, dont_delete_backups,
                   new_backups, backups, commands>>

\* trigger_backups_from_schedules, lines 138-144: one iteration
trigger_backups_from_schedules ==
    /\ pc = "trigger" /\ Running /\ schedules_list # <<>>
    /\ LET schedule == Head(schedules_list)
       IN  \E output \in StdOuts(schedule) :
             /\ commands' = Append(commands, Command("create", schedule))
             /\ IF findall(output) = <<>>
                THEN /\ exception' = "IndexError"
                     /\ UNCHANGED <<schedules_list, new_backups>>
                ELSE /\ new_backups' = Append(new_backups, findall(output)[1])
                     /\ schedules_list' = Tail(schedules_list)
                     /\ exception' = exception
    /\ UNCHANGED <<backup_specs, window_hours, dry_run, dont_delete_backups,
                   pc, schedules, backups>>

\* lines 146 and 234-236: the trigger loop is over; delete unless told not to
main_after_trigger ==
    /\ pc = "trigger" /\ Running /\ schedules_list = <<>>
    /\ IF dont_delete_backups
       THEN pc' = "done" /\ backups' = backups
       ELSE pc' = "delete" /\ backups' = chain_values(schedules)
    /\ UNCHANGED <<backup_specs, window_hours, dry_run, dont_delete_backups,
                   exception, schedules, schedules_list, new_backups,
                   commands>>

\* delete_backups, lines 159-165: one iteration.  execute() never raises on
\* a failing command (check=False); delete_namespaced_custom_object raises
\* ApiException when the API refuses.
delete_backups ==
    /\ pc = "delete" /\ Running /\ backups # <<>>
    /\ LET backup == Head(backups)
       IN  \E api_ok \in BOOLEAN :
             /\ commands' = commands \o <<Command("delete", backup),
                                          Command("api_delete", backup)>>
             /\ IF api_ok
                THEN backups' = Tail(backups) /\ exception' = exception
                ELSE backups' = backups /\ exception' = "ApiException"
    /\ UNCHANGED <<backup_specs, window_hours, dry_run, dont_delete_backups,
                   pc, schedules, schedules_list, new_backups>>

\* the delete loop is over: main returns
main_return ==
    /\ pc = "delete" /\ Running /\ backups = <<>>
    /\ pc' = "done"
    /\ UNCHANGED <<backup_specs, window_hours, dry_run, dont_delete_backups,
                   exception, schedules, schedules_list, new_backups, backups,
                   commands>>

Next ==
    \/ main_classify
    \/ trigger_backups_from_schedules
    \/ main_after_trigger
    \/ delete_backups
    \/ main_return

Spec == Init /\ [][Next]_vars

\* ------------------------------------------------- vocabulary of the claims

\* find_failed_backup_schedules has returned its dict to main
Returned == pc # "classify"

\* the run is over: main returned, or an uncaught exception ended it
Terminated == pc = "done" \/ exception # "None"

\* main got past both early returns (lines 224-229)
PastGates == pc \in {"trigger", "delete"} \/ (pc = "done" /\ commands # <<>>)

HasStart(b) == b.startTimestamp.kind = "iso"

FailedPhase(b) == b.phase \in {"PartiallyFailed", "Failed"}

Instant(ts) == ts.h * 60 + ts.m

Age(b) == Instant(Now) - Instant(b.startTimestamp)

\* a record the classification is meant to keep
Qualifies(b) ==
    HasStart(b) /\ FailedPhase(b) /\ Age(b) <= window_hours * 60

ScheduleOwners(b) ==
    { b.ownerReferences[j].name :
        j \in { x \in 1..Len(b.ownerReferences) :
                  b.ownerReferences[x].kind = "Schedule" } }

Records == { backup_specs[k] : k \in 1..Len(backup_specs) }

Range(seq) == { seq[i] : i \in 1..Len(seq) }

ResultSchedules == Range(Keys(schedules))

ResultBackups(s) ==
    UNION { Range(schedules[i].val) :
              i \in { x \in 1..Len(schedules) : schedules[x].key = s } }

ResultBackupNames == UNION { ResultBackups(s) : s \in ResultSchedules }

Occurrences(seq, x) == Cardinality({ i \in 1..Len(seq) : seq[i] = x })

Issued(c, arg) == Command(c, arg) \in Range(commands)

AnyTrigger == \E i \in 1..Len(commands) : commands[i].cmd = "create"

AnyDelete ==
    \E i \in 1..Len(commands) : commands[i].cmd \in {"delete", "api_delete"}

\* ------------------------------------------------------------------ claims

\* C1: every backup name in the returned dict is the name of a record that
\* has a startTimestamp, a phase in {PartiallyFailed, Failed} and an age of
\* at most window_hours; every schedule in it is a Schedule owner of such a
\* record whose name it lists; no record of another phase is in it.
C1_ResultIsFailedInWindow ==
    Returned =>
      /\ \A n \in ResultBackupNames :
           \E b \in Records : b.name = n /\ Qualifies(b)
      /\ \A s \in ResultSchedules :
           \E b \in Records :
             /\ Qualifies(b)
             /\ s \in ScheduleOwners(b)
             /\ b.name \in ResultBackups(s)
      /\ \A b \in Records :
           ~FailedPhase(b) => b.name \notin ResultBackupNames

\* a returned dict that lists one record and leaves out another one, which
\* has a Schedule owner and a start inside the window but is not failed
C1_Witness ==
    /\ Returned
    /\ ResultBackupNames # {}
    /\ \E b \in Records :
         /\ HasStart(b) /\ ~FailedPhase(b)
         /\ Age(b) <= window_hours * 60
         /\ ScheduleOwners(b) # {}

\* C2: triggering is skip-and-continue: when the run is over, every schedule
\* of the classification result has had its trigger attempt, whatever the
\* earlier triggers' outcomes.
C2_EveryScheduleTriggered ==
    (Terminated /\ PastGates) =>
      \A s \in ResultSchedules : Issued("create", s)

\* C3: deletion is independent per backup: once deletion has started, when
\* the run is over a delete has been attempted for every failed backup of
\* the result, whatever the earlier deletes' outcomes.
C3_EveryBackupDeleteAttempted ==
    (Terminated /\ (pc = "delete" \/ AnyDelete)) =>
      \A n \in ResultBackupNames : Issued("delete", n)

WellFormedOnly ==
    SelectSeq(backup_specs, LAMBDA b : b.startTimestamp.kind # "malformed")

\* C4: a malformed startTimestamp never aborts the pass, and the other
\* records are classified as they are without the malformed ones.
C4_MalformedSkipped ==
    /\ exception # "ValueError"
    /\ Returned =>
         schedules =
           find_failed_backup_schedules(WellFormedOnly, window_hours).value

\* C5: a failed, in-window record with neither a Schedule owner reference
\* nor a schedule label is in the result under the schedule "unknown", and
\* no trigger is attempted for "unknown".
C5_UnknownSentinel ==
    Returned =>
      /\ \A b \in Records :
           (Qualifies(b) /\ ScheduleOwners(b) = {} /\ b.labels = NoLabel)
             => b.name \in ResultBackups("unknown")
      /\ ~Issued("create", "unknown")

\* C6: a failed, in-window record with no Schedule owner reference and a
\* schedule label is in the result under the schedule its label names.
C6_LabelFallback ==
    Returned =>
      \A b \in Records :
        (Qualifies(b) /\ ScheduleOwners(b) = {} /\ b.labels # NoLabel)
          => /\ b.labels \in ResultSchedules
             /\ b.name \in ResultBackups(b.labels)

\* the gates of main alone: a trigger only on a non-empty result without
\* dry-run, a delete only when --dont-delete-backups is off as well
GatesOnly ==
    /\ AnyTrigger => (schedules # <<>> /\ ~dry_run)
    /\ AnyDelete => (schedules # <<>> /\ ~dry_run /\ ~dont_delete_backups)

\* C7: the gates of main, and with --dont-delete-backups (no dry-run, a
\* non-empty result) every failed schedule is triggered by the end of the
\* run and nothing is deleted.
C7_Gating ==
    /\ GatesOnly
    /\ (Terminated /\ Returned /\ schedules # <<>> /\ ~dry_run
          /\ dont_delete_backups) =>
         /\ \A s \in ResultSchedules : Issued("create", s)
         /\ ~AnyDelete

\* C8: a failed record whose age equals window_hours is in the result, and
\* a failed record whose age exceeds window_hours is not.
C8_InclusiveBoundary ==
    Returned =>
      \A b \in Records :
        (HasStart(b) /\ FailedPhase(b)) =>
          /\ Age(b) = window_hours * 60 => b.name \in ResultBackupNames
          /\ Age(b) > window_hours * 60 => b.name \notin ResultBackupNames

\* the boundary on the records that have a Schedule owner reference
BoundaryOfOwned ==
    Returned =>
      \A b \in Records :
        (HasStart(b) /\ FailedPhase(b) /\ ScheduleOwners(b) # {}) =>
          (b.name \in ResultBackupNames <=> Age(b) <= window_hours * 60)

\* C9: a failed, in-window record with two Schedule owner references of
\* distinct names puts both names among the returned schedules, and when a
\* run without dry-run is over both have had a trigger attempt.
C9_BothOwners ==
    Returned =>
      \A b \in Records :
        (Qualifies(b) /\ Cardinality(ScheduleOwners(b)) = 2) =>
          /\ ScheduleOwners(b) \subseteq ResultSchedules
          /\ \A s \in ScheduleOwners(b) : b.name \in ResultBackups(s)
          /\ (Terminated /\ ~dry_run) =>
               \A s \in ScheduleOwners(b) : Issued("create", s)

\* the attribution alone, without the trigger attempts
BothOwnersAttributed ==
    Returned =>
      \A b \in Records :
        (Qualifies(b) /\ Cardinality(ScheduleOwners(b)) = 2) =>
          /\ ScheduleOwners(b) \subseteq ResultSchedules
          /\ \A s \in ScheduleOwners(b) : b.name \in ResultBackups(s)

\* C10: each schedule occurs once among the returned schedules, each backup
\* name at most once in the list handed to delete_backups, and at most one
\* delete is issued per backup.
C10_Deduplicated ==
    /\ \A s \in ResultSchedules : Occurrences(Keys(schedules), s) = 1
    /\ \A n \in Range(backups) : Occurrences(backups, n) = 1
    /\ \A n \in ResultBackupNames :
         Cardinality({ i \in 1..Len(commands) :
                         commands[i] = Command("delete", n) }) <= 1

\* the schedules alone are deduplicated
SchedulesDistinct ==
    \A s \in ResultSchedules : Occurrences(Keys(schedules), s) = 1

====
